---- MODULE Spec2Model ----
(***************************************************************************)
(* Model of bevy_command_non_send (src/src/lib.rs): three constructors of  *)
(* deferred operations on non-Send resources, the CommandsExt forwarding   *)
(* methods, and the host's command queue and world they act on.            *)
(***************************************************************************)
EXTENDS Integers, Sequences, FiniteSets, TLC

\* Number of deferred operations constructed in one run of the model.
MaxOps == 3

\* The thread the host designates for non-Send state, and the other threads
\* that systems (and so calls on Commands) may run on.
MainThread == "main"
Workers == {"worker"}
Threads == {MainThread} \cup Workers

\* Resource types R.  Counter has a plain Default (0); Marker's FromWorld
\* reads the world it is built from.
ResTypes == {"Counter", "Marker"}
Absent == -1

\* Factories F: FnOnce() -> R.  The return type fixes R.
Factories == { [r |-> "Counter", ret |-> 5],
               [r |-> "Marker",  ret |-> 2] }
NoFunc == [r |-> "none", ret |-> 0]

\* A thread that holds no command.
NoCmd == [id |-> 0, kind |-> "none", r |-> "none", func |-> NoFunc]

\* (func)() : invoking a factory yields its value.
Call(func) == func.ret

\* A world with no non-Send resource.
EmptyWorld == [r \in ResTypes |-> Absent]

\* R::from_world(world): the caller-supplied context-derived default.
FromWorld(r, w) ==
    IF r = "Counter" THEN 0
    ELSE IF w["Counter"] = Absent THEN 1 ELSE w["Counter"] + 1

-----------------------------------------------------------------------------
\* Host engine: World mutators and the command queue.

\* World::init_non_send_resource::<R>(): registers the default if R is absent,
\* otherwise leaves the world alone.
World_init_non_send_resource(w, r) ==
    IF w[r] = Absent THEN [w EXCEPT ![r] = FromWorld(r, w)] ELSE w

\* World::insert_non_send_resource(value): installs value, overwriting.
World_insert_non_send_resource(w, r, v) == [w EXCEPT ![r] = v]

\* World::remove_non_send_resource::<R>(): removes R if present.
World_remove_non_send_resource(w, r) == [w EXCEPT ![r] = Absent]

\* Commands::add(command): pushes the command at the back of the queue.
Commands_add(q, c) == Append(q, c)

-----------------------------------------------------------------------------
\* The library: constructors.  A closure is a record of what it captured; id
\* is the identity of the closure object.  Each constructor returns the closure
\* and the number of factory invocations made while constructing it.

init_non_send_resource(id, r) ==
    [cmd |-> [id |-> id, kind |-> "init", r |-> r, func |-> NoFunc], calls |-> 0]

\* The factory is invoked while the command is built instead of being captured.
insert_eager(id, func) ==
    [cmd |-> [id |-> id, kind |-> "insert", r |-> func.r, func |-> func], calls |-> 1]

insert_non_send_resource(id, func) ==
    [cmd |-> [id |-> id, kind |-> "insert", r |-> func.r, func |-> func], calls |-> 0]

remove_non_send_resource(id, r) ==
    [cmd |-> [id |-> id, kind |-> "remove", r |-> r, func |-> NoFunc], calls |-> 0]

\* The closure bodies.  Each returns the world it leaves and the number of
\* factory invocations it made.

init_forgets(w, r) == [world |-> w, calls |-> 0]

init_resets(w, r) ==
    [world |-> World_insert_non_send_resource(w, r, FromWorld(r, w)), calls |-> 0]

init_closure(w, r) ==
    [world |-> World_init_non_send_resource(w, r), calls |-> 0]

insert_if_absent(w, func) ==
    [world |-> IF w[func.r] = Absent
               THEN World_insert_non_send_resource(w, func.r, Call(func))
               ELSE w,
     calls |-> 1]

insert_closure(w, func) ==
    [world |-> World_insert_non_send_resource(w, func.r, Call(func)), calls |-> 1]

remove_as_init(w, r) ==
    [world |-> World_init_non_send_resource(w, r), calls |-> 0]

remove_forgets(w, r) == [world |-> w, calls |-> 0]

remove_clears(w, r) == [world |-> EmptyWorld, calls |-> 0]

remove_closure(w, r) ==
    [world |-> World_remove_non_send_resource(w, r), calls |-> 0]

\* Command::apply for a closure: runs its body against the world.
RunCommand(c, w) ==
    CASE c.kind = "init"   -> init_closure(w, c.r)
      [] c.kind = "insert" -> insert_closure(w, c.func)
      [] c.kind = "remove" -> remove_closure(w, c.r)

\* CommandQueue::apply: runs the queued commands front to back.
RECURSIVE ApplyQueue(_, _)
ApplyQueue(w, q) ==
    IF q = << >> THEN w
    ELSE ApplyQueue(RunCommand(Head(q), w).world, Tail(q))

-----------------------------------------------------------------------------
\* The library: impl CommandsExt for Commands.  Each returns the queue it
\* leaves and the number of factory invocations made during the call.

ext_init_twice(q, id, r) ==
    LET b == init_non_send_resource(id, r)
    IN  [queue |-> Commands_add(Commands_add(q, b.cmd), b.cmd), calls |-> b.calls]

CommandsExt_init_non_send_resource(q, id, r) ==
    LET b == init_non_send_resource(id, r)
    IN  [queue |-> Commands_add(q, b.cmd), calls |-> b.calls]

ext_insert_eager(q, id, func) ==
    LET b == insert_non_send_resource(id, func)
    IN  [queue |-> Commands_add(q, b.cmd), calls |-> b.calls + 1]

CommandsExt_insert_non_send_resource(q, id, func) ==
    LET b == insert_non_send_resource(id, func)
    IN  [queue |-> Commands_add(q, b.cmd), calls |-> b.calls]

ext_remove_as_init(q, id, r) ==
    LET b == init_non_send_resource(id, r)
    IN  [queue |-> Commands_add(q, b.cmd), calls |-> b.calls]

CommandsExt_remove_non_send_resource(q, id, r) ==
    LET b == remove_non_send_resource(id, r)
    IN  [queue |-> Commands_add(q, b.cmd), calls |-> b.calls]

-----------------------------------------------------------------------------
VARIABLES
    world,           \* the host's World: resource type -> value or Absent
    held,            \* per thread: the command a free function returned to it
    queue,           \* the Commands queue
    applying,        \* TRUE while the host applies the queue
    nextId,          \* identity of the next closure object
    runs,            \* id -> times the command has run against the world
    calls,           \* id -> times the command's factory has been invoked
    log,             \* every command handed to the queue, in enqueue order
    paths,           \* how commands were enqueued so far: "ext", "add"
    callers,         \* threads that have called a constructor or a method
    factoryThreads,  \* threads that have invoked a factory
    touchThreads     \* threads that have run a command against the world

vars == << world, held, queue, applying, nextId, runs, calls, log, paths,
           callers, factoryThreads, touchThreads >>

Ids == 1..MaxOps

Init ==
    /\ world = EmptyWorld
    /\ held = [t \in Threads |-> NoCmd]
    /\ queue = << >>
    /\ applying = FALSE
    /\ nextId = 1
    /\ runs = [i \in Ids |-> 0]
    /\ calls = [i \in Ids |-> 0]
    /\ log = << >>
    /\ paths = {}
    /\ callers = {}
    /\ factoryThreads = {}
    /\ touchThreads = {}

\* Bookkeeping of a constructor call made by thread t that returned b.
Constructed(t, b) ==
    /\ nextId' = nextId + 1
    /\ callers' = callers \cup {t}
    /\ calls' = [calls EXCEPT ![nextId] = @ + b.calls]
    /\ factoryThreads' = IF b.calls > 0 THEN factoryThreads \cup {t}
                         ELSE factoryThreads

\* A system on thread t calls a free function and holds the command.  Systems
\* do not run while the host applies the queue.
Build(t, b) ==
    /\ ~applying
    /\ nextId <= MaxOps
    /\ held[t] = NoCmd
    /\ held' = [held EXCEPT ![t] = b.cmd]
    /\ Constructed(t, b)
    /\ UNCHANGED << world, queue, applying, runs, log, paths, touchThreads >>

BuildInit(t, r) == Build(t, init_non_send_resource(nextId, r))

BuildInsert(t, func) == Build(t, insert_non_send_resource(nextId, func))

BuildRemove(t, r) == Build(t, remove_non_send_resource(nextId, r))

\* commands.add(c) with the command the thread holds; the command is moved.
Add(t) ==
    /\ ~applying
    /\ held[t] # NoCmd
    /\ held' = [held EXCEPT ![t] = NoCmd]
    /\ queue' = Commands_add(queue, held[t])
    /\ log' = Append(log, held[t])
    /\ paths' = paths \cup {"add"}
    /\ UNCHANGED << world, applying, nextId, runs, calls, callers,
                    factoryThreads, touchThreads >>

\* Bookkeeping of a CommandsExt method call by thread t that returned e.
ExtCalled(t, e) ==
    /\ queue' = e.queue
    /\ log' = log \o SubSeq(e.queue, Len(queue) + 1, Len(e.queue))
    /\ paths' = paths \cup {"ext"}
    /\ Constructed(t, e)
    /\ UNCHANGED << world, held, applying, runs, touchThreads >>

ExtInit(t, r) ==
    /\ ~applying
    /\ nextId <= MaxOps
    /\ ExtCalled(t, CommandsExt_init_non_send_resource(queue, nextId, r))

ExtInsert(t, func) ==
    /\ ~applying
    /\ nextId <= MaxOps
    /\ ExtCalled(t, CommandsExt_insert_non_send_resource(queue, nextId, func))

ExtRemove(t, r) ==
    /\ ~applying
    /\ nextId <= MaxOps
    /\ ExtCalled(t, CommandsExt_remove_non_send_resource(queue, nextId, r))

\* The host reaches a sync point and starts applying the queue.
ApplyBegin ==
    /\ ~applying
    /\ queue # << >>
    /\ applying' = TRUE
    /\ UNCHANGED << world, held, queue, nextId, runs, calls, log, paths,
                    callers, factoryThreads, touchThreads >>

\* The host pops the front command and runs it on the designated thread.
Run(kind) ==
    /\ applying
    /\ queue # << >>
    /\ Head(queue).kind = kind
    /\ LET c == Head(queue)
           res == RunCommand(c, world)
       IN  /\ world' = res.world
           /\ runs' = [runs EXCEPT ![c.id] = @ + 1]
           /\ calls' = [calls EXCEPT ![c.id] = @ + res.calls]
           /\ factoryThreads' = IF res.calls > 0
                                THEN factoryThreads \cup {MainThread}
                                ELSE factoryThreads
    /\ touchThreads' = touchThreads \cup {MainThread}
    /\ queue' = Tail(queue)
    /\ applying' = (Tail(queue) # << >>)
    /\ UNCHANGED << held, nextId, log, paths, callers >>

RunInit == Run("init")

RunInsert == Run("insert")

RunRemove == Run("remove")

Next ==
    \/ \E t \in Threads, r \in ResTypes : BuildInit(t, r)
    \/ \E t \in Threads, f \in Factories : BuildInsert(t, f)
    \/ \E t \in Threads, r \in ResTypes : BuildRemove(t, r)
    \/ \E t \in Threads : Add(t)
    \/ \E t \in Threads, r \in ResTypes : ExtInit(t, r)
    \/ \E t \in Threads, f \in Factories : ExtInsert(t, f)
    \/ \E t \in Threads, r \in ResTypes : ExtRemove(t, r)
    \/ ApplyBegin
    \/ RunInit
    \/ RunInsert
    \/ RunRemove

Spec == Init /\ [][Next]_vars

-----------------------------------------------------------------------------
\* Derived views used by the properties.

Done == ~applying /\ queue = << >>

\* The command at the front of the queue, about to run.
Front == Head(queue)

LogIds == {log[i].id : i \in 1..Len(log)}

OpsOn(r) == {i \in 1..Len(log) : log[i].r = r}

LastOn(r) == CHOOSE i \in OpsOn(r) : \A j \in OpsOn(r) : j <= i

\* What was asked for, without the closure's identity.
Shape(c) == << c.kind, c.r, c.func.ret >>

AllRan == \A i \in 1..Len(log) : runs[log[i].id] = 1

ExtStep ==
    \/ \E t \in Threads, r \in ResTypes : ExtInit(t, r)
    \/ \E t \in Threads, f \in Factories : ExtInsert(t, f)
    \/ \E t \in Threads, r \in ResTypes : ExtRemove(t, r)

RunStep == RunInit \/ RunInsert \/ RunRemove

-----------------------------------------------------------------------------
\* C1: when the init command runs against a world in which R is absent, R is
\* afterwards present and equal to R's default computed from that world.
C1_InitRegistersDefault ==
    [][ (RunInit /\ world[Front.r] = Absent) =>
            /\ world'[Front.r] # Absent
            /\ world'[Front.r] = FromWorld(Front.r, world) ]_vars

\* An init of Marker ran after Counter had been inserted, and Marker holds the
\* default derived from that world.
C1_Witness ==
    /\ Len(log) = 2 /\ AllRan /\ Done
    /\ Shape(log[1]) = << "insert", "Counter", 5 >>
    /\ Shape(log[2]) = << "init", "Marker", 0 >>
    /\ world["Marker"] = 6

\* C2: after the insert command runs, R is present and equal to exactly the
\* value the factory returned, whether R was absent or present before.
C2_InsertInstallsFactoryValue ==
    [][ RunInsert =>
            /\ world'[Front.r] # Absent
            /\ world'[Front.r] = Call(Front.func) ]_vars

\* Counter was registered with its default 0 and then overwritten with 5.
C2_Witness ==
    /\ Len(log) = 2 /\ AllRan /\ Done
    /\ Shape(log[1]) = << "init", "Counter", 0 >>
    /\ Shape(log[2]) = << "insert", "Counter", 5 >>
    /\ world["Counter"] = 5

\* C3: the remove command leaves R absent; when R was already absent it leaves
\* the whole world unchanged.
C3_RemoveLeavesAbsent ==
    [][ RunRemove =>
            /\ world'[Front.r] = Absent
            /\ (world[Front.r] = Absent => world' = world) ]_vars

\* Marker was inserted, removed, and removed again while absent; Counter is
\* still there.
C3_Witness ==
    /\ Len(log) = 3 /\ AllRan /\ Done
    /\ Shape(log[1]) = << "insert", "Marker", 2 >>
    /\ Shape(log[2]) = << "remove", "Marker", 0 >>
    /\ Shape(log[3]) = << "remove", "Marker", 0 >>
    /\ world["Marker"] = Absent

\* C4: from every reachable world and queue, calling a CommandsExt method and
\* applying the queue gives the same world (and the same factory invocations at
\* call time) as adding the command built by the free function and applying.
C4_ExtEqualsAdd ==
    LET id == nextId IN
        /\ \A r \in ResTypes :
             LET e == CommandsExt_init_non_send_resource(queue, id, r)
                 b == init_non_send_resource(id, r)
             IN  /\ ApplyQueue(world, e.queue)
                      = ApplyQueue(world, Commands_add(queue, b.cmd))
                 /\ e.calls = b.calls
        /\ \A f \in Factories :
             LET e == CommandsExt_insert_non_send_resource(queue, id, f)
                 b == insert_non_send_resource(id, f)
             IN  /\ ApplyQueue(world, e.queue)
                      = ApplyQueue(world, Commands_add(queue, b.cmd))
                 /\ e.calls = b.calls
        /\ \A r \in ResTypes :
             LET e == CommandsExt_remove_non_send_resource(queue, id, r)
                 b == remove_non_send_resource(id, r)
             IN  /\ ApplyQueue(world, e.queue)
                      = ApplyQueue(world, Commands_add(queue, b.cmd))
                 /\ e.calls = b.calls

\* Every command so far was enqueued through a method, one has run, the world
\* holds a resource, and a further command is waiting in the queue.
C4_Witness ==
    /\ paths = {"ext"}
    /\ \E id \in LogIds : runs[id] = 1
    /\ world # EmptyWorld
    /\ queue # << >>
    /\ ~applying

\* C5: a deferred operation has not run before it is handed to the queue nor
\* while it waits in the queue, and it never runs more than once.
C5_RunsAtMostOnce ==
    /\ \A id \in Ids : runs[id] <= 1
    /\ \A id \in Ids \ LogIds : runs[id] = 0
    /\ \A i \in 1..Len(queue) : runs[queue[i].id] = 0

\* One operation has run once, one waits in the queue, one was built and never
\* enqueued.
C5_Witness ==
    /\ \E id \in LogIds : runs[id] = 1
    /\ \E i \in 1..Len(queue) : runs[queue[i].id] = 0
    /\ \E t \in Threads : held[t] # NoCmd /\ runs[held[t].id] = 0

\* C6: the factory of an insert operation is not invoked when the operation is
\* built or enqueued, and has been invoked exactly once after it has run.
C6_FactoryOnceAtRun ==
    \A id \in Ids :
        /\ calls[id] <= 1
        /\ runs[id] = 0 => calls[id] = 0
        /\ \A i \in 1..Len(log) :
             (log[i].id = id /\ log[i].kind = "insert" /\ runs[id] >= 1)
                 => calls[id] = 1

\* One insert has run (factory invoked once), one waits in the queue and one is
\* only built (factories not invoked).
C6_Witness ==
    /\ \E i \in 1..Len(log) :
          log[i].kind = "insert" /\ runs[log[i].id] = 1 /\ calls[log[i].id] = 1
    /\ \E i \in 1..Len(queue) :
          queue[i].kind = "insert" /\ calls[queue[i].id] = 0
    /\ \E t \in Threads : held[t].kind = "insert" /\ calls[held[t].id] = 0

\* C7: whichever threads build and enqueue operations, only the main thread
\* invokes a factory or runs a command against the world.
C7_OnlyMainThreadTouches ==
    /\ factoryThreads \subseteq {MainThread}
    /\ touchThreads \subseteq {MainThread}

\* Every operation so far was built and enqueued by a worker thread, and an
\* insert among them has run.
C7_Witness ==
    /\ callers = Workers
    /\ factoryThreads = {MainThread}
    /\ touchThreads = {MainThread}
    /\ \E i \in 1..Len(log) : log[i].kind = "insert" /\ runs[log[i].id] = 1

\* C8: when the init command runs and R is already present the world is left
\* unchanged, and running init twice gives the same world as running it once.
C8_InitKeepsExisting ==
    /\ [][ (RunInit /\ world[Front.r] # Absent) => world' = world ]_vars
    /\ [](\A r \in ResTypes :
            init_closure(init_closure(world, r).world, r).world
                = init_closure(world, r).world)

\* Counter was inserted as 5 and a later init of Counter left it at 5.
C8_Witness ==
    /\ Len(log) = 2 /\ AllRan /\ Done
    /\ Shape(log[1]) = << "insert", "Counter", 5 >>
    /\ Shape(log[2]) = << "init", "Counter", 0 >>
    /\ world["Counter"] = 5

\* C9: queued operations take effect in enqueue order: the world after the
\* queue is applied is the one obtained by running the enqueued operations one
\* after another; init Counter gives 0, then insert Counter(5) gives 5, then
\* remove gives absent; the last operation enqueued on R decides its presence.
C9_EnqueueOrder ==
    /\ ApplyQueue(world, queue) = ApplyQueue(EmptyWorld, log)
    /\ Done =>
        /\ \A r \in ResTypes :
             IF OpsOn(r) = {} THEN world[r] = Absent
             ELSE (world[r] = Absent) <=> (log[LastOn(r)].kind = "remove")
        /\ Len(log) >= 1 /\ Shape(log[1]) = << "init", "Counter", 0 >>
             => /\ Len(log) = 1 => world["Counter"] = 0
                /\ Len(log) >= 2 /\ Shape(log[2]) = << "insert", "Counter", 5 >>
                     => /\ Len(log) = 2 => world["Counter"] = 5
                        /\ (Len(log) = 3
                              /\ Shape(log[3]) = << "remove", "Counter", 0 >>)
                             => world["Counter"] = Absent

\* The three operations of the scenario were enqueued in order and applied.
C9_Witness ==
    /\ Len(log) = 3 /\ AllRan /\ Done
    /\ Shape(log[1]) = << "init", "Counter", 0 >>
    /\ Shape(log[2]) = << "insert", "Counter", 5 >>
    /\ Shape(log[3]) = << "remove", "Counter", 0 >>
    /\ world["Counter"] = Absent

\* C10: a CommandsExt method call appends exactly one operation to the queue
\* and leaves the world as it is; a command for R leaves every other resource
\* type as it was.
C10_Frame ==
    [][ /\ ExtStep => /\ Len(queue') = Len(queue) + 1
                      /\ SubSeq(queue', 1, Len(queue)) = queue
                      /\ world' = world
        /\ RunStep => \A r \in ResTypes \ {Front.r} : world'[r] = world[r]
      ]_vars

\* Commands enqueued through methods: Marker was inserted, then commands on
\* Counter ran, and Marker still holds its value.
C10_Witness ==
    /\ Len(log) >= 2 /\ AllRan /\ Done
    /\ Shape(log[1]) = << "insert", "Marker", 2 >>
    /\ log[2].r = "Counter" /\ paths = {"ext"}
    /\ \A i \in 1..Len(log) : i >= 2 => log[i].r = "Counter"
    /\ world["Marker"] = 2

====
